---- MODULE Spec2Model ----
(***************************************************************************)
(* A model of the theme and colour support of the Mu editor:               *)
(*   - mu/theming.py            the stylesheet template (class Theme)      *)
(*   - mu/interface/colour.py   the colour panel (ColourButton,            *)
(*                              ColourWidget)                              *)
(*   - mu/interface/themes.py   the custom theme's colour table            *)
(*                              (CUSTOM_DEFAULTS, Theme.merge_dict,        *)
(*                              CustomTheme.stylesheet), the font database *)
(*                              (Font) and Theme.apply_to on a lexer       *)
(* Text is modelled as TLA+ strings, read a character at a time with       *)
(* SubSeq; a QColor is a record of its validity and its three channels.    *)
(***************************************************************************)
EXTENDS Integers, Sequences, FiniteSets, TLC

VARIABLES
    source,           \* theming.Theme.source: the accumulated template text
    vars,             \* theming.Theme.vars: name -> QColor
    outcome,          \* what the last call on the template returned or raised
    loads,            \* number of load_source calls so far (bounded)
    controls,         \* colour.ColourWidget: role -> its ColourButton
    widgetCall,       \* the last call on the colour widget and its result
    activations,      \* number of ColourButton.activated calls so far (bounded)
    buttonDefault,    \* ColourButton.default of each role's button
    CUSTOM_DEFAULTS,  \* themes.CUSTOM_DEFAULTS: the module-level dict
    colours,          \* themes.CustomTheme.colours: the override table
    themeCall,        \* the last call on the custom theme and its result
    DATABASE,         \* themes.Font._DATABASE: the cached font database
    constructed,      \* number of QFontDatabase objects constructed so far
    fontData,         \* the file names load_font_data was asked for, in order
    lexers,           \* the highlighters: lexer -> the settings made on it
    highlightCall     \* the last call on the fonts or a theme class, its
                      \* result and the calls it made on the lexer

templateVars == <<source, vars, outcome, loads>>

widgetVars == <<controls, widgetCall, activations, buttonDefault>>

themeVars == <<CUSTOM_DEFAULTS, colours, themeCall>>

highlightVars == <<DATABASE, constructed, fontData, lexers, highlightCall>>

allVars == <<templateVars, widgetVars, themeVars, highlightVars>>

\* Number of load_source calls explored.
MaxLoads == 2

\* Number of times the user opens a colour dialog.
MaxActivations == 2

(***************************************************************************)
(* Strings                                                                 *)
(***************************************************************************)
NL == "\n"

\* s[i], as a one-character string ("" outside the string)
CharAt(s, i) == IF i >= 1 /\ i <= Len(s) THEN SubSeq(s, i, i) ELSE ""

\* s[i:i+2]
Two(s, i) == IF i >= 1 /\ i + 1 <= Len(s) THEN SubSeq(s, i, i + 1) ELSE ""

(***************************************************************************)
(* QColor                                                                  *)
(***************************************************************************)
HexDigits == "0123456789abcdef"

\* the value of a hexadecimal digit in either case, -1 for any other character
HexVal(c) ==
    CASE c = "0" -> 0
      [] c = "1" -> 1
      [] c = "2" -> 2
      [] c = "3" -> 3
      [] c = "4" -> 4
      [] c = "5" -> 5
      [] c = "6" -> 6
      [] c = "7" -> 7
      [] c = "8" -> 8
      [] c = "9" -> 9
      [] c = "a" -> 10
      [] c = "b" -> 11
      [] c = "c" -> 12
      [] c = "d" -> 13
      [] c = "e" -> 14
      [] c = "f" -> 15
      [] c = "A" -> 10
      [] c = "B" -> 11
      [] c = "C" -> 12
      [] c = "D" -> 13
      [] c = "E" -> 14
      [] c = "F" -> 15
      [] OTHER -> -1

\* QColor(): the invalid colour
InvalidColor == [valid |-> FALSE, r |-> 0, g |-> 0, b |-> 0]

\* QColor(r, g, b)
Rgb(r, g, b) == [valid |-> TRUE, r |-> r, g |-> g, b |-> b]

\* the SVG colour names the program uses
NamedColors ==
    [ red       |-> Rgb(255, 0, 0),
      blue      |-> Rgb(0, 0, 255),
      black     |-> Rgb(0, 0, 0),
      yellow    |-> Rgb(255, 255, 0),
      gray      |-> Rgb(128, 128, 128),
      lightGrey |-> Rgb(211, 211, 211) ]

\* QColor(str): "#RGB", "#RRGGBB" or a colour name; anything else is invalid
QColorFromString(s) ==
    IF Len(s) = 7 /\ CharAt(s, 1) = "#"
    THEN LET h(i) == HexVal(CharAt(s, i))
         IN  IF \E i \in 2..7 : h(i) < 0
             THEN InvalidColor
             ELSE Rgb(16 * h(2) + h(3), 16 * h(4) + h(5), 16 * h(6) + h(7))
    ELSE IF Len(s) = 4 /\ CharAt(s, 1) = "#"
    THEN LET h(i) == HexVal(CharAt(s, i))
         IN  IF \E i \in 2..4 : h(i) < 0
             THEN InvalidColor
             ELSE Rgb(17 * h(2), 17 * h(3), 17 * h(4))
    ELSE IF s \in DOMAIN NamedColors
    THEN NamedColors[s]
    ELSE InvalidColor

\* two lower-case hexadecimal digits
Hex2(n) == CharAt(HexDigits, (n \div 16) + 1) \o CharAt(HexDigits, (n % 16) + 1)

\* QColor.name(): "#rrggbb", and "#000000" for the invalid colour
Name(q) == "#" \o Hex2(q.r) \o Hex2(q.g) \o Hex2(q.b)

(***************************************************************************)
(* Python values handed to the template                                    *)
(***************************************************************************)
PyQColor(q) == [type |-> "QColor", q |-> q]

PyStr(s) == [type |-> "str", s |-> s]

\* isinstance(value, QColor)
IsQColor(value) == value.type = "QColor"

(***************************************************************************)
(* mu/theming.py: class Theme                                              *)
(***************************************************************************)
\* the files load_source is given, by path
Files ==
    [ example |-> "a %:X:%  b %:Y:%",
      missing |-> "%:Z:%",
      single  |-> "p{%:X:%}",
      lines   |-> "%:X:%" \o NL \o "%:Y:%",
      plain   |-> "b:%c%:" ]

\* the names the callers store colours under
Keys == {"X", "Y", "Z", "X:%  b %:Y"}

\* the values the callers assign
Values ==
    { PyQColor(QColorFromString("red")), PyQColor(QColorFromString("#00FF00")),
      PyStr("not a qcolor"), PyStr("#ff0000") }

\* the result of a call: the value it returns ("" for None) or the exception
\* it raises
Ok(value) == [raised |-> "none", value |-> value]

Raise(exc) == [raised |-> exc, value |-> ""]

\* the last call on the template: its name, its arguments and its result
Call(op, args, result) == [op |-> op, args |-> args, result |-> result]

TemplateInit ==
    /\ source = ""
    /\ vars = << >>
    /\ outcome = Call("__init__", << >>, Ok(""))
    /\ loads = 0

\* load_source with the text read taking the place of the source
load_source_replaces(path) ==
    /\ loads < MaxLoads
    /\ loads' = loads + 1
    /\ source' = NL \o Files[path]
    /\ outcome' = Call("load_source", <<path>>, Ok(""))
    /\ UNCHANGED vars
    /\ UNCHANGED <<widgetVars, themeVars, highlightVars>>

\* Theme.load_source
load_source(path) ==
    /\ loads < MaxLoads
    /\ loads' = loads + 1
    /\ source' = source \o NL \o Files[path]
    /\ outcome' = Call("load_source", <<path>>, Ok(""))
    /\ UNCHANGED vars
    /\ UNCHANGED <<widgetVars, themeVars, highlightVars>>

\* dict item assignment: d[key] = value
DictSet(d, key, value) ==
    [k \in DOMAIN d \cup {key} |-> IF k = key THEN value ELSE d[k]]

\* __setitem__ with the isinstance check replaced by a coercion of the value
setitem_coerces(key, value) ==
    /\ vars' = DictSet(vars, key,
                       IF IsQColor(value) THEN value.q ELSE QColorFromString(value.s))
    /\ outcome' = Call("__setitem__", <<key, value>>, Ok(""))
    /\ UNCHANGED <<source, loads>>
    /\ UNCHANGED <<widgetVars, themeVars, highlightVars>>

\* Theme.__setitem__
setitem(key, value) ==
    /\ IF ~IsQColor(value)
       THEN /\ outcome' = Call("__setitem__", <<key, value>>, Raise("TypeError"))
            /\ UNCHANGED vars
       ELSE /\ vars' = DictSet(vars, key, value.q)
            /\ outcome' = Call("__setitem__", <<key, value>>, Ok(""))
    /\ UNCHANGED <<source, loads>>
    /\ UNCHANGED <<widgetVars, themeVars, highlightVars>>

\* The end of the match of "%:(.*):%" at position i of s: the position of the
\* last ":%" that starts at or after i + 2 with no newline between i + 2 and
\* it ("." matches no newline, "*" is greedy); 0 when i starts no match.
MatchEnd(s, i) ==
    LET ends == { j \in (i + 2)..(Len(s) - 1) :
                    /\ Two(s, j) = ":%"
                    /\ \A k \in (i + 2)..(j - 1) : CharAt(s, k) # NL }
    IN  IF Two(s, i) = "%:" /\ ends # {}
        THEN CHOOSE j \in ends : \A k \in ends : k <= j
        ELSE 0

\* _repl with a missing variable rendered as the empty string
repl_default(d, group) ==
    IF group \in DOMAIN d THEN Ok(Name(d[group])) ELSE Ok("")

\* Theme._repl: the colour name of the variable the match names
repl(d, group) ==
    IF group \in DOMAIN d THEN Ok(Name(d[group])) ELSE Raise("KeyError")

\* re.sub("%:(.*):%", self._repl, s) from position i on: the matches are
\* found left to right, without overlap; text outside them is copied.
RECURSIVE Sub(_, _, _)
Sub(s, d, i) ==
    IF i > Len(s)
    THEN Ok("")
    ELSE LET j == MatchEnd(s, i)
         IN  IF j = 0
             THEN LET rest == Sub(s, d, i + 1)
                  IN  IF rest.raised # "none"
                      THEN rest
                      ELSE Ok(CharAt(s, i) \o rest.value)
             ELSE LET r == repl(d, SubSeq(s, i + 2, j - 1))
                  IN  IF r.raised # "none"
                      THEN r
                      ELSE LET rest == Sub(s, d, j + 2)
                           IN  IF rest.raised # "none"
                               THEN rest
                               ELSE Ok(r.value \o rest.value)

\* __str__ keeping the rendered text as the new source
str_saves ==
    LET result == Sub(source, vars, 1)
    IN  /\ outcome' = Call("__str__", << >>, result)
        /\ source' = IF result.raised = "none" THEN result.value ELSE source
        /\ UNCHANGED <<vars, loads>>
        /\ UNCHANGED <<widgetVars, themeVars, highlightVars>>

\* Theme.__str__
str ==
    /\ outcome' = Call("__str__", << >>, Sub(source, vars, 1))
    /\ UNCHANGED <<source, vars, loads>>
    /\ UNCHANGED <<widgetVars, themeVars, highlightVars>>

(***************************************************************************)
(* mu/interface/colour.py: ColourButton and ColourWidget                   *)
(***************************************************************************)
\* the colour role vocabulary, in the order set_colours assigns the buttons
RoleOrder ==
    << "BACKGROUND", "FOREGROUND", "EDITOR-BACKGROUND", "EDITOR-FOREGROUND",
       "BORDER", "CONTROL", "HOVER", "FOCUS", "TAB-CURRENT", "CLOSE" >>

Roles ==
    { "BACKGROUND", "FOREGROUND", "EDITOR-BACKGROUND", "EDITOR-FOREGROUND",
      "BORDER", "CONTROL", "HOVER", "FOCUS", "TAB-CURRENT", "CLOSE" }

\* the "no override" marker of get_colour
NONE == "[NONE]"

\* ColourButton.dlg = None. A dialog has its current and its selected
\* colour; id tells which of the dialogs the button constructed it is,
\* connected how often its currentColorChanged was connected to preview,
\* and execs how often it was executed.
NoDialog ==
    [ exists |-> FALSE, id |-> 0, connected |-> 0, execs |-> 0,
      current |-> InvalidColor, selected |-> InvalidColor ]

\* ColourButton.sheet.format(colour.name())
StyleSheet(colour) == "QPushButton { background: " \o Name(colour) \o "; } "

\* ColourButton.__init__ (preview sets the style sheet)
ColourButton(colour) ==
    [_colour |-> colour, dlg |-> NoDialog, styleSheet |-> StyleSheet(colour)]

\* ColourWidget.__init__: the colours the ten buttons are created with
InitialColour(role) ==
    IF role = "FOREGROUND" THEN Rgb(255, 0, 0)
    ELSE IF role = "BORDER" THEN Rgb(0, 0, 255)
    ELSE Rgb(0, 255, 0)

\* ColourButton.colour (getter)
Colour(btn) ==
    IF btn.dlg.exists THEN Name(btn.dlg.selected) ELSE Name(btn._colour)

\* ColourButton.colour (setter)
SetColour(btn, val) ==
    LET col == QColorFromString(val)
    IN  [ _colour    |-> col,
          styleSheet |-> StyleSheet(col),
          dlg        |-> IF btn.dlg.exists
                         THEN [btn.dlg EXCEPT !.current = col]
                         ELSE btn.dlg ]

\* activated constructing a dialog on every call
Activated_new_dialog(btn, picked, pick, accept) ==
    LET current == IF picked THEN pick ELSE btn._colour
    IN  [ _colour    |-> btn._colour,
          styleSheet |-> IF picked THEN StyleSheet(pick) ELSE StyleSheet(btn._colour),
          dlg        |-> [ exists    |-> TRUE,
                           id        |-> btn.dlg.id + 1,
                           connected |-> 1,
                           execs     |-> 1,
                           current   |-> current,
                           selected  |-> IF accept THEN current ELSE InvalidColor ] ]

\* ColourButton.activated, with what the user does in the dialog exec()
\* shows: pick a colour or not (the dialog then signals preview), and accept
\* or cancel (QColorDialog keeps the accepted colour as selectedColor, and
\* an invalid colour after a cancel).
Activated(btn, picked, pick, accept) ==
    LET dlg == IF btn.dlg.exists
               THEN btn.dlg
               ELSE [ exists |-> TRUE, id |-> btn.dlg.id + 1, connected |-> 1,
                      execs |-> 0, current |-> btn._colour,
                      selected |-> InvalidColor ]
        current == IF picked THEN pick ELSE dlg.current
    IN  [ _colour    |-> btn._colour,
          styleSheet |-> IF picked THEN StyleSheet(pick)
                         ELSE IF btn.dlg.exists THEN btn.styleSheet
                         ELSE StyleSheet(btn._colour),
          dlg        |-> [ exists    |-> TRUE,
                           id        |-> dlg.id,
                           connected |-> dlg.connected,
                           execs     |-> dlg.execs + 1,
                           current   |-> current,
                           selected  |-> IF accept THEN current ELSE InvalidColor ] ]

\* get_colour without the "[NONE]" test
get_colour_no_sentinel(overrides, fallback, name) ==
    IF name \notin DOMAIN fallback
    THEN Raise("KeyError")
    ELSE IF name \in DOMAIN overrides
         THEN Ok(overrides[name])
         ELSE Ok(fallback[name])

\* ColourWidget.get_colour(colours, fallback, name)
get_colour(overrides, fallback, name) ==
    IF name \notin DOMAIN fallback
    THEN Raise("KeyError")
    ELSE IF name \in DOMAIN overrides /\ overrides[name] # NONE
         THEN Ok(overrides[name])
         ELSE Ok(fallback[name])

\* get_colours reading each button's cached colour instead of its colour
get_colours_cached(ctrls, default) ==
    LET changed == { r \in Roles : Name(ctrls[r]._colour) # default[r] }
    IN  [r \in changed |-> Name(ctrls[r]._colour)]

\* ColourWidget.get_colours(default): the roles whose button colour differs
\* from the default, with that colour
get_colours(ctrls, default) ==
    LET changed == { r \in Roles : Colour(ctrls[r]) # default[r] }
    IN  [r \in changed |-> Colour(ctrls[r])]

\* set_colours looking up every key of the override map in the fallback
\* table before assigning the buttons
set_colours_strict(ctrls, overrides, fallback) ==
    IF DOMAIN overrides \subseteq DOMAIN fallback
    THEN [ controls |-> [r \in Roles |->
                            SetColour(ctrls[r], get_colour(overrides, fallback, r).value)],
           result   |-> Ok("") ]
    ELSE [controls |-> ctrls, result |-> Raise("KeyError")]

\* ColourWidget.set_colours(colours, fallback): the ten buttons are assigned
\* one after the other in RoleOrder; an exception of get_colour ends the
\* call and leaves the buttons after it as they were.
set_colours(ctrls, overrides, fallback) ==
    LET failing == { i \in 1..Len(RoleOrder) :
                       get_colour(overrides, fallback, RoleOrder[i]).raised # "none" }
        stop == IF failing = {}
                THEN Len(RoleOrder) + 1
                ELSE CHOOSE i \in failing : \A k \in failing : i <= k
        assigned == { RoleOrder[i] : i \in 1..(stop - 1) }
    IN  [ controls |-> [r \in Roles |->
                           IF r \in assigned
                           THEN SetColour(ctrls[r], get_colour(overrides, fallback, r).value)
                           ELSE ctrls[r]],
          result   |-> IF failing = {} THEN Ok("") ELSE Raise("KeyError") ]

\* themes.py: the colour tables of the built-in themes
DayColours ==
    "BORDER" :> "#b4b4b4" @@
    "HOVER" :> "#cccccc" @@
    "CLOSE" :> "#e97867" @@
    "FOREGROUND" :> "#000000" @@
    "BACKGROUND" :> "#eeeeee" @@
    "EDITOR-BACKGROUND" :> "#FEFEF7" @@
    "EDITOR-FOREGROUND" :> "#181818" @@
    "CONTROL" :> "#c4c4c4" @@
    "TAB-CURRENT" :> "#e0e0e0" @@
    "FOCUS" :> "#0f53e7"

NightColours ==
    "BORDER" :> "#6b6b6b" @@
    "HOVER" :> "#5c5c5c" @@
    "CLOSE" :> "#c93827" @@
    "FOREGROUND" :> "#FFFFFF" @@
    "BACKGROUND" :> "#222222" @@
    "EDITOR-BACKGROUND" :> "#373737" @@
    "EDITOR-FOREGROUND" :> "#FFFFFF" @@
    "CONTROL" :> "#474747" @@
    "TAB-CURRENT" :> "#6b6b6b" @@
    "FOCUS" :> "#929292"

ContrastColours ==
    "BORDER" :> "#555555" @@
    "HOVER" :> "#888888" @@
    "CLOSE" :> "#c93827" @@
    "FOREGROUND" :> "#FFFFFF" @@
    "BACKGROUND" :> "#000000" @@
    "EDITOR-BACKGROUND" :> "#FFFFFF" @@
    "EDITOR-FOREGROUND" :> "#000000" @@
    "CONTROL" :> "#2e2e2e" @@
    "TAB-CURRENT" :> "#555555" @@
    "FOCUS" :> "yellow"

\* themes.CUSTOM_DEFAULTS as the module defines it
CustomDefaults ==
    "BORDER" :> "#b4b4b4" @@
    "HOVER" :> "#cccccc" @@
    "CLOSE" :> "#e97867" @@
    "FOREGROUND" :> "#000000" @@
    "BACKGROUND" :> "#eeeeee" @@
    "EDITOR-BACKGROUND" :> "#fefee7" @@
    "EDITOR-FOREGROUND" :> "#181818" @@
    "CONTROL" :> "#c4c4c4" @@
    "TAB-CURRENT" :> "#e0e0e0" @@
    "FOCUS" :> "#0f53e7"

\* the default tables the widget is given
DefaultTables == {CustomDefaults, DayColours, NightColours, ContrastColours}

\* a key no role has
Bogus == "BOGUS"

\* the colour values found in override maps
OverrideValues == {"#123456", "#FEFEF7", NONE}

\* the key sets of the override maps: none, any one role, an unknown key,
\* and an unknown key beside roles
OverrideKeySets ==
    {{}} \cup { {r} : r \in Roles \cup {Bogus} }
         \cup { {"BACKGROUND", Bogus}, {"BACKGROUND", "EDITOR-BACKGROUND", Bogus} }

\* the override maps the widget is given
OverrideMaps == UNION { [ks -> OverrideValues] : ks \in OverrideKeySets }

\* the override maps set_colours is given: over no key, a role, an unknown
\* key, and a role beside an unknown key
PanelOverrides ==
    UNION { [ks -> {"#123456", NONE}] :
              ks \in { {}, {"BACKGROUND"}, {"EDITOR-BACKGROUND"}, {Bogus},
                       {"EDITOR-BACKGROUND", Bogus} } }

\* the buttons the user opens the dialog of, and the colours picked there
UserRoles == {"EDITOR-BACKGROUND"}

Picks == {QColorFromString("#123456"), QColorFromString("#eeeeee")}

WidgetInit ==
    /\ controls = [r \in Roles |-> ColourButton(InitialColour(r))]
    /\ widgetCall = Call("__init__", << >>, Ok(""))
    /\ activations = 0
    /\ buttonDefault = [r \in Roles |-> Name(InitialColour(r))]

\* a click on the button of a role
DoActivated(role, picked, pick, accept) ==
    /\ activations < MaxActivations
    /\ activations' = activations + 1
    /\ controls' = [controls EXCEPT ![role] = Activated(@, picked, pick, accept)]
    /\ widgetCall' = Call("activated", <<role>>, Ok(""))
    /\ UNCHANGED <<buttonDefault, templateVars, themeVars, highlightVars>>

DoSetColours(overrides, fallback) ==
    \E done \in {set_colours(controls, overrides, fallback)} :
        /\ controls' = done.controls
        /\ widgetCall' = Call("set_colours", <<overrides, fallback>>, done.result)
        /\ UNCHANGED activations
        /\ UNCHANGED <<buttonDefault, templateVars, themeVars, highlightVars>>

DoGetColours(default) ==
    /\ widgetCall' = Call("get_colours", <<default>>, Ok(get_colours(controls, default)))
    /\ UNCHANGED <<controls, activations>>
    /\ UNCHANGED <<buttonDefault, templateVars, themeVars, highlightVars>>

\* get_colour reads nothing of the widget: it is applied to each input once
DoGetColour(overrides, fallback, name) ==
    /\ widgetCall.op = "__init__"
    /\ widgetCall' = Call("get_colour", <<overrides, fallback, name>>,
                          get_colour(overrides, fallback, name))
    /\ UNCHANGED <<controls, activations>>
    /\ UNCHANGED <<buttonDefault, templateVars, themeVars, highlightVars>>

\* the colour values assigned to a button
AssignedValues == {"#123456", "#FEFEF7"}

\* button.colour = val
DoAssign(role, val) ==
    /\ controls' = [controls EXCEPT ![role] = SetColour(@, val)]
    /\ widgetCall' = Call("colour", <<role, val>>, Ok(""))
    /\ UNCHANGED <<activations, buttonDefault>>
    /\ UNCHANGED <<templateVars, themeVars, highlightVars>>

\* button.default = table[role], for the button of every role
DoSetDefault(table) ==
    /\ buttonDefault' = table
    /\ widgetCall' = Call("default", <<table>>, Ok(""))
    /\ UNCHANGED <<controls, activations>>
    /\ UNCHANGED <<templateVars, themeVars, highlightVars>>

\* ColourButton.reset: the button is assigned its default
ButtonReset(btn, dflt) == SetColour(btn, dflt)

\* ColourWidget.reset: every role is resolved with no overrides against the
\* defaults and assigned to its button
reset(ctrls, dflts) == set_colours(ctrls, << >>, dflts)

\* button.reset()
DoButtonReset(role) ==
    /\ controls' = [controls EXCEPT ![role] = ButtonReset(@, buttonDefault[role])]
    /\ widgetCall' = Call("ColourButton.reset", <<role>>, Ok(""))
    /\ UNCHANGED <<activations, buttonDefault>>
    /\ UNCHANGED <<templateVars, themeVars, highlightVars>>

\* widget.reset()
DoReset ==
    \E done \in {reset(controls, buttonDefault)} :
        /\ controls' = done.controls
        /\ widgetCall' = Call("ColourWidget.reset", << >>, done.result)
        /\ UNCHANGED <<activations, buttonDefault>>
        /\ UNCHANGED <<templateVars, themeVars, highlightVars>>

(***************************************************************************)
(* mu/interface/themes.py: the custom theme's colour table                 *)
(***************************************************************************)
\* the keys of a dict in the order a loop visits them
RECURSIVE Items(_)
Items(S) ==
    IF S = {} THEN << >>
    ELSE LET k == CHOOSE k \in S : TRUE IN <<k>> \o Items(S \ {k})

\* The loop of merge_dict over the items of b, from the i-th on; obj is the
\* one dict that both a and res name.
RECURSIVE MergeLoop(_, _, _, _)
MergeLoop(obj, b, keys, i) ==
    IF i > Len(keys)
    THEN obj
    ELSE LET key == keys[i]
             value == b[key]
         IN  MergeLoop(IF key \notin DOMAIN obj \/ obj[key] # value
                       THEN DictSet(obj, key, value)
                       ELSE obj,
                       b, keys, i + 1)

\* Theme.merge_dict(a, b): res = a names the dict a itself, so the loop
\* writes into a; the call returns that dict. "a" is a after the call.
merge_dict(a, b) ==
    LET obj == MergeLoop(a, b, Items(DOMAIN b), 1)
    IN  [res |-> obj, a |-> obj]

\* the override tables the custom theme is given
ThemeKeys == {"BACKGROUND", "EDITOR-BACKGROUND", Bogus}

ThemeOverrides == UNION { [ks -> {"#123456", NONE}] : ks \in SUBSET ThemeKeys }

ThemeInit ==
    /\ CUSTOM_DEFAULTS = CustomDefaults
    /\ colours = << >>
    /\ themeCall = Call("__init__", << >>, Ok(""))

\* CustomTheme.colours = overrides
SetThemeColours(overrides) ==
    /\ colours' = overrides
    /\ themeCall' = Call("colours", <<overrides>>, Ok(""))
    /\ UNCHANGED CUSTOM_DEFAULTS
    /\ UNCHANGED <<templateVars, widgetVars, highlightVars>>

\* CustomTheme.stylesheet: the table given to the sheet as its colours
stylesheet ==
    LET merged == merge_dict(CUSTOM_DEFAULTS, colours)
    IN  /\ CUSTOM_DEFAULTS' = merged.a
        /\ themeCall' = Call("stylesheet", << >>, Ok(merged.res))
        /\ UNCHANGED colours
        /\ UNCHANGED <<templateVars, widgetVars, highlightVars>>

(***************************************************************************)
(* mu/interface/themes.py: Font and Theme.apply_to                         *)
(***************************************************************************)
DEFAULT_FONT_SIZE == 14

FONT_NAME == "Source Code Pro"

FONT_VARIANTS == <<"Bold", "BoldIt", "It", "Regular", "Semibold", "SemiboldIt">>

\* FONT_FILENAME_PATTERN.format(variant=variant)
FontFilename(variant) == "SourceCodePro-" \o variant \o ".otf"

\* Python's None
None == [type |-> "None"]

\* Font.__init__, with its default colour and paper
Font(color, paper, bold, italic) ==
    [type |-> "Font", color |-> color, paper |-> paper, bold |-> bold, italic |-> italic]

DefaultColor == "#181818"

DefaultPaper == "#FEFEF7"

\* QFontDatabase(): the n-th database the program constructs, with no
\* application font yet
QFontDatabase(n) == [type |-> "QFontDatabase", id |-> n, fonts |-> << >>]

\* QFontDatabase.font(family, style, size)
QFont(family, style, size) ==
    [type |-> "QFont", family |-> family, style |-> style, size |-> size]

\* The loop of get_database from the i-th variant on; fs is the state of the
\* fonts: the cache, the databases constructed, the font data loaded.
RECURSIVE AddFonts(_, _)
AddFonts(fs, i) ==
    IF i > Len(FONT_VARIANTS)
    THEN fs
    ELSE LET filename == FontFilename(FONT_VARIANTS[i])
         IN  AddFonts([fs EXCEPT !.fontData = Append(@, filename),
                                 !.DATABASE.fonts = Append(@, filename)],
                      i + 1)

\* get_database constructing and filling a database on every call
get_database_uncached(fs) ==
    LET built == AddFonts([fs EXCEPT !.DATABASE = QFontDatabase(fs.constructed + 1),
                                     !.constructed = @ + 1], 1)
    IN  [fs |-> built, value |-> built.DATABASE]

\* Font.get_database: the database it returns and the state it leaves
get_database(fs) ==
    IF fs.DATABASE.type = "None"
    THEN LET built == AddFonts([fs EXCEPT !.DATABASE = QFontDatabase(fs.constructed + 1),
                                          !.constructed = @ + 1], 1)
         IN  [fs |-> built, value |-> built.DATABASE]
    ELSE [fs |-> fs, value |-> fs.DATABASE]

\* Font.stylename
stylename(font) ==
    IF font.bold
    THEN IF font.italic THEN "Semibold Italic" ELSE "Semibold"
    ELSE IF font.italic THEN "Italic" ELSE "Regular"

\* Font.load(size)
load(font, size, fs) ==
    LET got == get_database(fs)
    IN  [fs |-> got.fs, value |-> QFont(FONT_NAME, stylename(font), size)]

\* an entry of a class __dict__
Entry(name, value) == [name |-> name, value |-> value]

\* a class attribute that is a dict, a function or a property
PyOther(kind) == [type |-> kind]

\* class Theme: its own attributes, in the order of the class body
Theme ==
    << Entry("__module__", PyStr("mu.interface.themes")),
       Entry("__qualname__", PyStr("Theme")),
       Entry("__doc__", PyStr("Defines a font and other theme specific related information.")),
       Entry("name", PyStr("base")),
       Entry("apply_to", PyOther("classmethod")),
       Entry("merge_dict", PyOther("function")),
       Entry("chart", PyOther("property")) >>

\* the attributes of a theme class that follow its fonts and colours: the
\* HTML and CSS categories, which name fonts and colours defined before
\* them, then the colour table and the stylesheet
SharedEntries(ClassName, Comment, Keyword, SingleQuotedString, DoubleQuotedString, Number, Decorator, Default, Operator, HighlightedIdentifier, UnmatchedBraceBackground) ==
    LET Tag == Keyword
        Attribute == ClassName
        ClassSelector == Tag
    IN  << Entry("Tag", Tag),
           Entry("UnknownTag", Tag),
           Entry("XMLTagEnd", Tag),
           Entry("XMLStart", Tag),
           Entry("XMLEnd", Tag),
           Entry("Attribute", Attribute),
           Entry("UnknownAttribute", Attribute),
           Entry("HTMLNumber", Number),
           Entry("HTMLDoubleQuotedString", DoubleQuotedString),
           Entry("HTMLSingleQuotedString", SingleQuotedString),
           Entry("OtherInTag", Default),
           Entry("HTMLComment", Comment),
           Entry("Entity", Operator),
           Entry("CDATA", Decorator),
           Entry("ClassSelector", ClassSelector),
           Entry("PseudoClass", ClassSelector),
           Entry("UnknownPseudoClass", ClassSelector),
           Entry("CSS1Property", SingleQuotedString),
           Entry("CSS2Property", SingleQuotedString),
           Entry("CSS3Property", SingleQuotedString),
           Entry("UnknownProperty", SingleQuotedString),
           Entry("Value", Number),
           Entry("IDSelector", Tag),
           Entry("Important", UnmatchedBraceBackground),
           Entry("AtRule", Decorator),
           Entry("MediaRule", Decorator),
           Entry("Variable", HighlightedIdentifier),
           Entry("colours", PyOther("dict")),
           Entry("stylesheet", PyOther("property")) >>

\* QColor(str) as a class attribute
Q(s) == PyQColor(QColorFromString(s))

\* class DayTheme
DayTheme ==
    LET ClassName == Font("#0000a0", DefaultPaper, FALSE, FALSE)
        UnclosedString == Font(DefaultColor, "#FFDDDD", FALSE, FALSE)
        Comment == Font("gray", DefaultPaper, FALSE, FALSE)
        Keyword == Font("#005050", DefaultPaper, TRUE, FALSE)
        SingleQuotedString == Font("#800000", DefaultPaper, FALSE, FALSE)
        TripleSingleQuotedString == Font("#060", DefaultPaper, FALSE, FALSE)
        Number == Font("#00008B", DefaultPaper, FALSE, FALSE)
        Decorator == Font("#cc6600", DefaultPaper, FALSE, FALSE)
        Default == Font(DefaultColor, DefaultPaper, FALSE, FALSE)
        Operator == Font("#400040", DefaultPaper, FALSE, FALSE)
        HighlightedIdentifier == Font("#0000a0", DefaultPaper, FALSE, FALSE)
        UnmatchedBraceBackground == Q("#FFDDDD")
    IN  << Entry("__module__", PyStr("mu.interface.themes")),
           Entry("__qualname__", PyStr("DayTheme")),
           Entry("__doc__", PyStr("This is a light theme.")),
           Entry("name", PyStr("day")),
           Entry("icon", PyStr("theme_day")),
           Entry("FunctionMethodName", ClassName),
           Entry("ClassName", ClassName),
           Entry("UnclosedString", UnclosedString),
           Entry("Comment", Comment),
           Entry("CommentBlock", Comment),
           Entry("Keyword", Keyword),
           Entry("SingleQuotedString", SingleQuotedString),
           Entry("DoubleQuotedString", SingleQuotedString),
           Entry("TripleSingleQuotedString", TripleSingleQuotedString),
           Entry("TripleDoubleQuotedString", TripleSingleQuotedString),
           Entry("Number", Number),
           Entry("Decorator", Decorator),
           Entry("Default", Default),
           Entry("Identifier", Default),
           Entry("Operator", Operator),
           Entry("HighlightedIdentifier", HighlightedIdentifier),
           Entry("Paper", Q("#FEFEF7")),
           Entry("Caret", Q("#181818")),
           Entry("Margin", Q("#EEE")),
           Entry("IndicatorError", Q("red")),
           Entry("IndicatorStyle", Q("blue")),
           Entry("DebugStyle", Q("#ffcc33")),
           Entry("IndicatorWordMatch", Q("lightGrey")),
           Entry("BraceBackground", Q("lightGrey")),
           Entry("BraceForeground", Q("blue")),
           Entry("UnmatchedBraceBackground", UnmatchedBraceBackground),
           Entry("UnmatchedBraceForeground", Q("black")),
           Entry("BreakpointMarker", Q("#D80000")) >>
        \o SharedEntries(ClassName, Comment, Keyword, SingleQuotedString,
                         SingleQuotedString, Number, Decorator, Default, Operator,
                         HighlightedIdentifier, UnmatchedBraceBackground)

\* class NightTheme
NightTheme ==
    LET ClassName == Font("#81a2be", "#222", FALSE, FALSE)
        UnclosedString == Font(DefaultColor, "#c93827", FALSE, FALSE)
        Comment == Font("#969896", "#222", FALSE, FALSE)
        Keyword == Font("#73a46a", "#222", TRUE, FALSE)
        SingleQuotedString == Font("#f0c674", "#222", FALSE, FALSE)
        TripleSingleQuotedString == Font("#f0c674", "#222", FALSE, FALSE)
        Number == Font("#b5bd68", "#222", FALSE, FALSE)
        Decorator == Font("#cc6666", "#222", FALSE, FALSE)
        Default == Font("#DDD", "#222", FALSE, FALSE)
        Operator == Font("#b294bb", "#222", FALSE, FALSE)
        HighlightedIdentifier == Font("#de935f", "#222", FALSE, FALSE)
        UnmatchedBraceBackground == Q("#c93827")
    IN  << Entry("__module__", PyStr("mu.interface.themes")),
           Entry("__qualname__", PyStr("NightTheme")),
           Entry("__doc__", PyStr("This is the dark theme.")),
           Entry("name", PyStr("night")),
           Entry("icon", PyStr("theme")),
           Entry("FunctionMethodName", ClassName),
           Entry("ClassName", ClassName),
           Entry("UnclosedString", UnclosedString),
           Entry("Comment", Comment),
           Entry("CommentBlock", Comment),
           Entry("CommentLine", Comment),
           Entry("Keyword", Keyword),
           Entry("SingleQuotedString", SingleQuotedString),
           Entry("DoubleQuotedString", SingleQuotedString),
           Entry("TripleSingleQuotedString", TripleSingleQuotedString),
           Entry("TripleDoubleQuotedString", TripleSingleQuotedString),
           Entry("Number", Number),
           Entry("Decorator", Decorator),
           Entry("Default", Default),
           Entry("Identifier", Default),
           Entry("Operator", Operator),
           Entry("HighlightedIdentifier", HighlightedIdentifier),
           Entry("Paper", Q("#222")),
           Entry("Caret", Q("#c6c6c6")),
           Entry("Margin", Q("#424446")),
           Entry("IndicatorError", Q("#c93827")),
           Entry("IndicatorStyle", Q("#2f5692")),
           Entry("DebugStyle", Q("#444")),
           Entry("IndicatorWordMatch", Q("#f14721")),
           Entry("BraceBackground", Q("#ed1596")),
           Entry("BraceForeground", Q("#222")),
           Entry("UnmatchedBraceBackground", UnmatchedBraceBackground),
           Entry("UnmatchedBraceForeground", Q("#222")),
           Entry("BreakpointMarker", Q("#c93827")) >>
        \o SharedEntries(ClassName, Comment, Keyword, SingleQuotedString,
                         SingleQuotedString, Number, Decorator, Default, Operator,
                         HighlightedIdentifier, UnmatchedBraceBackground)
        \o << Entry("chart", PyOther("property")) >>

\* the theme classes apply_to is called on
ThemeClasses ==
    "Theme" :> Theme @@ "DayTheme" :> DayTheme @@ "NightTheme" :> NightTheme

\* the style categories of QsciLexerPython and their numbers
PythonLexer ==
    "Default" :> 0 @@ "Comment" :> 1 @@ "Number" :> 2 @@
    "DoubleQuotedString" :> 3 @@ "SingleQuotedString" :> 4 @@ "Keyword" :> 5 @@
    "TripleSingleQuotedString" :> 6 @@ "TripleDoubleQuotedString" :> 7 @@
    "ClassName" :> 8 @@ "FunctionMethodName" :> 9 @@ "Operator" :> 10 @@
    "Identifier" :> 11 @@ "CommentBlock" :> 12 @@ "UnclosedString" :> 13 @@
    "HighlightedIdentifier" :> 14 @@ "Decorator" :> 15

\* the style categories of QsciLexerCSS and their numbers
CssLexer ==
    "Default" :> 0 @@ "Tag" :> 1 @@ "ClassSelector" :> 2 @@ "PseudoClass" :> 3 @@
    "UnknownPseudoClass" :> 4 @@ "Operator" :> 5 @@ "CSS1Property" :> 6 @@
    "UnknownProperty" :> 7 @@ "Value" :> 8 @@ "Comment" :> 9 @@
    "IDSelector" :> 10 @@ "Important" :> 11 @@ "AtRule" :> 12 @@
    "DoubleQuotedString" :> 13 @@ "SingleQuotedString" :> 14 @@
    "CSS2Property" :> 15 @@ "Attribute" :> 16 @@ "CSS3Property" :> 17 @@
    "PseudoElement" :> 18 @@ "ExtendedCSSProperty" :> 19 @@
    "ExtendedPseudoClass" :> 20 @@ "ExtendedPseudoElement" :> 21 @@
    "MediaRule" :> 22 @@ "Variable" :> 23

\* a lexer that has an attribute for every name of a theme class, as a test
\* double has: the category's number is its place in the night theme
AnyLexer ==
    LET named == { i \in 1..Len(NightTheme) : NightTheme[i].value.type = "Font" }
    IN  [name \in { NightTheme[i].name : i \in named } |->
            CHOOSE i \in named : NightTheme[i].name = name]

\* the lexers and what getattr(lexer, name) finds on each
Lexers == "python" :> PythonLexer @@ "css" :> CssLexer @@ "any" :> AnyLexer

\* a lexer no theme was applied to: no font, and no style set
NewLexer == [font |-> None, styles |-> << >>]

\* a style no setter was called for
NewStyle(lexer) ==
    [color |-> None, eolFill |-> FALSE, paper |-> None, font |-> lexer.font]

\* a call on the lexer, as a test double records it
LexerCall(method, args) == [method |-> method, args |-> args]

\* QsciLexer.setFont(f): the font of all styles
SetFontAll(lexer, f) ==
    [font |-> f, styles |-> [n \in DOMAIN lexer.styles |-> [lexer.styles[n] EXCEPT !.font = f]]]

\* QsciLexer.setColor, setEolFill, setPaper and setFont for one style
SetStyle(lexer, style_num, color, eolFill, paper, f) ==
    [lexer EXCEPT !.styles =
        DictSet(@, style_num,
                [color |-> color, eolFill |-> eolFill, paper |-> paper, font |-> f])]

\* The loop of apply_to from the i-th item of the class __dict__ on; st holds
\* the lexer, the calls made on it so far, the state of the fonts and the
\* result so far: an exception ends the loop.
RECURSIVE ApplyLoop(_, _, _, _)
ApplyLoop(st, items, attrs, i) ==
    IF i > Len(items) \/ st.result.raised # "none"
    THEN st
    ELSE LET name == items[i].name
             font == items[i].value
         IN  IF font.type # "Font"
             THEN ApplyLoop(st, items, attrs, i + 1)
             ELSE IF name \notin DOMAIN attrs
             THEN [st EXCEPT !.result = Raise("AttributeError")]
             ELSE LET style_num == attrs[name]
                      color == QColorFromString(font.color)
                      paper == QColorFromString(font.paper)
                      loaded == load(font, DEFAULT_FONT_SIZE, st.fs)
                  IN  ApplyLoop(
                          [ lexer  |-> SetStyle(st.lexer, style_num, color, TRUE,
                                                paper, loaded.value),
                            calls  |-> st.calls \o
                                       << LexerCall("setColor", <<color, style_num>>),
                                          LexerCall("setEolFill", <<TRUE, style_num>>),
                                          LexerCall("setPaper", <<paper, style_num>>),
                                          LexerCall("setFont", <<loaded.value, style_num>>) >>,
                            fs     |-> loaded.fs,
                            result |-> st.result ],
                          items, attrs, i + 1)

\* Theme.apply_to(lexer) on the class whose __dict__ is items
apply_to(items, lexer, attrs, fs) ==
    LET loaded == load(Font(DefaultColor, DefaultPaper, FALSE, FALSE),
                       DEFAULT_FONT_SIZE, fs)
    IN  ApplyLoop([ lexer  |-> SetFontAll(lexer, loaded.value),
                    calls  |-> << LexerCall("setFont", <<loaded.value>>) >>,
                    fs     |-> loaded.fs,
                    result |-> Ok("") ],
                  items, attrs, 1)

\* the fonts the callers load
Fonts ==
    { Font(DefaultColor, DefaultPaper, bold, italic) : bold \in BOOLEAN, italic \in BOOLEAN }

\* the state of the fonts
FontState == [DATABASE |-> DATABASE, constructed |-> constructed, fontData |-> fontData]

\* a call, its result and the calls it made on the lexer
HighlightCall(op, args, result, calls) ==
    [op |-> op, args |-> args, result |-> result, calls |-> calls]

HighlightInit ==
    /\ DATABASE = None
    /\ constructed = 0
    /\ fontData = << >>
    /\ lexers = [l \in DOMAIN Lexers |-> NewLexer]
    /\ highlightCall = HighlightCall("__init__", << >>, Ok(""), << >>)

\* cls.apply_to(lexer)
DoApplyTo(cls, l) ==
    \E done \in {apply_to(ThemeClasses[cls], lexers[l], Lexers[l], FontState)} :
        /\ DATABASE' = done.fs.DATABASE
        /\ constructed' = done.fs.constructed
        /\ fontData' = done.fs.fontData
        /\ lexers' = [lexers EXCEPT ![l] = done.lexer]
        /\ highlightCall' = HighlightCall("apply_to", <<cls, l>>, done.result, done.calls)
        /\ UNCHANGED <<templateVars, widgetVars, themeVars>>

\* font.load()
DoLoad(font) ==
    \E done \in {load(font, DEFAULT_FONT_SIZE, FontState)} :
        /\ DATABASE' = done.fs.DATABASE
        /\ constructed' = done.fs.constructed
        /\ fontData' = done.fs.fontData
        /\ highlightCall' = HighlightCall("load", <<font>>, Ok(done.value), << >>)
        /\ UNCHANGED lexers
        /\ UNCHANGED <<templateVars, widgetVars, themeVars>>

\* Font.get_database()
DoGetDatabase ==
    \E done \in {get_database(FontState)} :
        /\ DATABASE' = done.fs.DATABASE
        /\ constructed' = done.fs.constructed
        /\ fontData' = done.fs.fontData
        /\ highlightCall' = HighlightCall("get_database", << >>, Ok(done.value), << >>)
        /\ UNCHANGED lexers
        /\ UNCHANGED <<templateVars, widgetVars, themeVars>>

(***************************************************************************)
(* Specifications                                                          *)
(***************************************************************************)
Init == TemplateInit /\ WidgetInit /\ ThemeInit /\ HighlightInit

TemplateNext ==
    \/ \E path \in DOMAIN Files : load_source(path)
    \/ \E key \in Keys, value \in Values : setitem(key, value)
    \/ str

\* the stylesheet template
SpecTemplate == Init /\ [][TemplateNext]_allVars

WidgetNext ==
    \/ \E role \in UserRoles, pick \in Picks, accept \in BOOLEAN :
           DoActivated(role, TRUE, pick, accept)
    \/ \E role \in UserRoles, accept \in BOOLEAN :
           DoActivated(role, FALSE, InvalidColor, accept)
    \/ \E overrides \in PanelOverrides, fallback \in DefaultTables :
           DoSetColours(overrides, fallback)
    \/ \E default \in DefaultTables : DoGetColours(default)

\* the colour panel
SpecWidget == Init /\ [][WidgetNext]_allVars

ResolveNext ==
    \E overrides \in OverrideMaps, fallback \in DefaultTables,
       name \in Roles \cup {Bogus} :
           DoGetColour(overrides, fallback, name)

ButtonNext ==
    \/ \E role \in UserRoles, pick \in Picks, accept \in BOOLEAN :
           DoActivated(role, TRUE, pick, accept)
    \/ \E role \in UserRoles, accept \in BOOLEAN :
           DoActivated(role, FALSE, InvalidColor, accept)
    \/ \E role \in UserRoles, val \in AssignedValues : DoAssign(role, val)
    \/ \E table \in DefaultTables : DoSetDefault(table)
    \/ \E role \in UserRoles : DoButtonReset(role)
    \/ DoReset

\* the colour buttons: dialogs, assignments and resets
SpecButton == Init /\ [][ButtonNext]_allVars

\* get_colour on its own
SpecResolve == Init /\ [][ResolveNext]_allVars

ThemeNext ==
    \/ \E overrides \in ThemeOverrides : SetThemeColours(overrides)
    \/ stylesheet

\* the custom theme
SpecTheme == Init /\ [][ThemeNext]_allVars

HighlightNext ==
    \/ \E cls \in DOMAIN ThemeClasses, l \in DOMAIN Lexers : DoApplyTo(cls, l)
    \/ \E font \in Fonts : DoLoad(font)
    \/ DoGetDatabase

\* the fonts and the highlighters
SpecHighlight == Init /\ [][HighlightNext]_allVars

(***************************************************************************)
(* Properties of the template                                              *)
(***************************************************************************)
IsStr == outcome.op = "__str__"

\* The placeholder "%:NAME:%" read as the specification reads it: NAME runs
\* from i + 2 up to the next ":", which a "%" must follow; 0 when position i
\* starts no such placeholder.
PlaceholderEnd(s, i) ==
    LET colons == { j \in (i + 2)..Len(s) : CharAt(s, j) = ":" }
    IN  IF Two(s, i) = "%:" /\ colons # {}
        THEN LET j == CHOOSE j \in colons : \A k \in colons : j <= k
             IN  IF CharAt(s, j + 1) = "%" THEN j ELSE 0
        ELSE 0

\* the text with every such placeholder replaced by the name of its colour
RECURSIVE Substituted(_, _, _)
Substituted(s, d, i) ==
    IF i > Len(s)
    THEN ""
    ELSE LET j == PlaceholderEnd(s, i)
         IN  IF j = 0
             THEN CharAt(s, i) \o Substituted(s, d, i + 1)
             ELSE Name(d[SubSeq(s, i + 2, j - 1)]) \o Substituted(s, d, j + 2)

\* the names of the placeholders of s, read that way
PlaceholderNames(s) ==
    { SubSeq(s, i + 2, PlaceholderEnd(s, i) - 1) :
        i \in { k \in 1..Len(s) : PlaceholderEnd(s, k) # 0 } }

\* C3: when every placeholder %:NAME:% of the source has a stored colour, a
\* render returns the source with each placeholder replaced by the hex name
\* of its colour and all other text as it was, several placeholders on one
\* line included.
C3_RenderExact ==
    (IsStr /\ PlaceholderNames(source) \subseteq DOMAIN vars)
        => outcome.result = Ok(Substituted(source, vars, 1))

\* i and j are on the same line of s
SameLine(s, i, j) == \A k \in i..j : CharAt(s, k) # NL

\* The names a render looks up: on each line, the text between the first
\* "%:" and the last ":%" of the line, when the two do not overlap.
Referenced(s) ==
    { SubSeq(s, i + 2, j - 1) :
        <<i, j>> \in { p \in (1..Len(s)) \X (1..Len(s)) :
            /\ Two(s, p[1]) = "%:"
            /\ Two(s, p[2]) = ":%"
            /\ p[1] + 2 <= p[2]
            /\ SameLine(s, p[1], p[2] + 1)
            /\ \A k \in 1..(p[1] - 1) :
                   Two(s, k) = "%:" => ~SameLine(s, k, p[1])
            /\ \A k \in (p[2] + 1)..Len(s) :
                   Two(s, k) = ":%" => ~SameLine(s, p[2], k) } }

\* C4: a render raises KeyError, and returns no text at all, exactly when
\* the source references a name that has no stored value; it returns text
\* only when every referenced name has one.
C4_AllOrNothing ==
    IsStr =>
        /\ outcome.result.raised = "none" <=> Referenced(source) \subseteq DOMAIN vars
        /\ outcome.result.raised # "none" => outcome.result = Raise("KeyError")

\* a render failed on a source that has one stored and one missing name
C4_Witness ==
    /\ IsStr
    /\ outcome.result = Raise("KeyError")
    /\ Referenced(source) \cap DOMAIN vars # {}
    /\ ~(Referenced(source) \subseteq DOMAIN vars)

\* C5: a render, successful or failed, leaves the stored vars and the
\* accumulated source as they were, and a render that directly follows a
\* render gives the same result.
C5_RenderReadOnly ==
    [][outcome'.op = "__str__" =>
           /\ vars' = vars
           /\ source' = source
           /\ (IsStr => outcome' = outcome)]_templateVars

\* a render substituted a stored colour
C5_Witness ==
    /\ IsStr
    /\ source = NL \o Files.single
    /\ outcome.result = Ok(NL \o "p{#ff0000}")

\* C6: assigning a value that is not a QColor raises TypeError and leaves
\* vars as it was; assigning a QColor stores it under the name and changes
\* no other entry.
C6_SetItemTyped ==
    [][outcome'.op = "__setitem__" =>
           LET key == outcome'.args[1]
               value == outcome'.args[2]
           IN  IF value.type = "QColor"
               THEN /\ outcome'.result = Ok("")
                    /\ DOMAIN vars' = DOMAIN vars \cup {key}
                    /\ vars'[key] = value.q
                    /\ \A k \in DOMAIN vars \ {key} : vars'[k] = vars[k]
               ELSE /\ outcome'.result = Raise("TypeError")
                    /\ vars' = vars]_templateVars

\* a string was rejected while a colour was stored under another name
C6_Witness ==
    /\ outcome = Call("__setitem__", <<"Y", PyStr("#ff0000")>>, Raise("TypeError"))
    /\ DOMAIN vars = {"X"}

\* C12: a fresh template has an empty source; a load of text t makes the
\* source the old source, a newline and t, and leaves the vars as they were;
\* no other call changes the source. So after loads of t1, ..., tn the source
\* is "\n" t1 "\n" t2 ... "\n" tn.
C12_LoadOrder ==
    /\ source = ""
    /\ [][IF outcome'.op = "load_source"
          THEN /\ source' = source \o "\n" \o Files[outcome'.args[1]]
               /\ vars' = vars
          ELSE source' = source]_templateVars

\* two texts were loaded one after the other, with a colour stored
C12_Witness ==
    /\ outcome.op = "load_source"
    /\ source = "\n" \o "p{%:X:%}" \o "\n" \o "%:Z:%"
    /\ DOMAIN vars = {"X"}

(***************************************************************************)
(* Properties of the colour panel                                          *)
(***************************************************************************)
\* C1: for a role r of the defaults table D, get_colour returns O[r] when r
\* is a key of the override map O and O[r] is not "[NONE]", and D[r]
\* otherwise: when O has no key r and when O[r] is "[NONE]".
C1_Resolve ==
    widgetCall.op = "get_colour" =>
        LET O == widgetCall.args[1]
            D == widgetCall.args[2]
            r == widgetCall.args[3]
            got == widgetCall.result
        IN  r \in DOMAIN D =>
                /\ got.raised = "none"
                /\ r \notin DOMAIN O => got.value = D[r]
                /\ (r \in DOMAIN O /\ O[r] = "[NONE]") => got.value = D[r]
                /\ (r \in DOMAIN O /\ O[r] # "[NONE]") => got.value = O[r]

\* the sentinel was resolved to the default of the role
C1_Witness ==
    widgetCall = Call("get_colour",
                      <<"CONTROL" :> "[NONE]", CustomDefaults, "CONTROL">>,
                      Ok("#c4c4c4"))

\* C2: resolving every role against the map get_colours returns for a
\* defaults table D, and the same D, gives the colour of the role's button.
C2_RoundTrip ==
    widgetCall.op = "get_colours" =>
        LET D == widgetCall.args[1]
            diff == widgetCall.result.value
        IN  \A r \in Roles : get_colour(diff, D, r) = Ok(Colour(controls[r]))

\* get_colours returned a map that holds the role of a button whose dialog
\* was accepted, and not the role of a button that has its default colour
C2_Witness ==
    /\ widgetCall.op = "get_colours"
    /\ controls["EDITOR-BACKGROUND"].dlg.exists
    /\ controls["EDITOR-BACKGROUND"].dlg.selected.valid
    /\ "EDITOR-BACKGROUND" \in DOMAIN widgetCall.result.value
    /\ "BACKGROUND" \notin DOMAIN widgetCall.result.value

\* the override map without the keys that are no roles
KnownOnly(O) == [r \in DOMAIN O \cap Roles |-> O[r]]

\* C10: set_colours with an override map that holds unknown keys raises
\* nothing, resolves every role as the map without those keys does, and
\* assigns that colour to each of the ten buttons.
C10_UnknownKeysIgnored ==
    widgetCall.op = "set_colours" =>
        LET O == widgetCall.args[1]
            D == widgetCall.args[2]
        IN  /\ widgetCall.result = Ok("")
            /\ \A r \in Roles :
                   /\ get_colour(O, D, r).raised = "none"
                   /\ get_colour(O, D, r) = get_colour(KnownOnly(O), D, r)
                   /\ controls[r]._colour =
                          QColorFromString(get_colour(KnownOnly(O), D, r).value)

\* set_colours was given an unknown key beside a role and set the buttons
C10_Witness ==
    /\ widgetCall.op = "set_colours"
    /\ widgetCall.args[1] = ("EDITOR-BACKGROUND" :> "#123456") @@ (Bogus :> "#123456")
    /\ widgetCall.args[2] = DayColours
    /\ controls["EDITOR-BACKGROUND"]._colour = Rgb(18, 52, 86)
    /\ controls["BACKGROUND"]._colour = Rgb(238, 238, 238)

\* the canonical hex of a colour value
Canonical(v) == Name(QColorFromString(v))

\* C11: the map get_colours returns for a defaults table D holds a role
\* exactly when the colour of the role's button differs from D[role] as a
\* colour value (both in canonical hex), with the button's colour as its
\* value; so it is empty right after the buttons were set to D itself.
C11_DiffMinimal ==
    widgetCall.op = "get_colours" =>
        LET D == widgetCall.args[1]
            diff == widgetCall.result.value
        IN  \A r \in Roles :
                /\ r \in DOMAIN diff <=> Colour(controls[r]) # Canonical(D[r])
                /\ r \in DOMAIN diff => diff[r] = Colour(controls[r])

\* C15: after ColourWidget.reset the colour of every button is its default,
\* and after ColourButton.reset the colour of that button is its default,
\* whatever was assigned or picked before (colours compared in canonical
\* hex).
C15_ResetRestores ==
    /\ widgetCall.op = "ColourWidget.reset" =>
           \A r \in Roles : Colour(controls[r]) = Canonical(buttonDefault[r])
    /\ widgetCall.op = "ColourButton.reset" =>
           LET r == widgetCall.args[1]
           IN  Colour(controls[r]) = Canonical(buttonDefault[r])

\* C16: an activation leaves the button with the first dialog it
\* constructed, connected to preview once and executed once more than
\* before; the first activation constructs it with the button's colour as
\* its current colour, a later one keeps the dialog it finds; no other call
\* constructs, connects or executes a dialog.
C16_DialogOnce ==
    [][\A r \in Roles :
          LET old == controls[r].dlg
              new == controls'[r].dlg
          IN  IF widgetCall'.op = "activated" /\ widgetCall'.args[1] = r
              THEN /\ new.exists
                   /\ new.id = 1
                   /\ new.connected = 1
                   /\ new.execs = old.execs + 1
                   /\ old.exists => new.id = old.id /\ new.connected = old.connected
                   /\ (~old.exists /\ new.current # controls[r]._colour)
                          => new.current \in Picks
              ELSE /\ new.exists = old.exists
                   /\ new.id = old.id
                   /\ new.connected = old.connected
                   /\ new.execs = old.execs]_widgetVars

\* the dialog of a button was executed a second time
C16_Witness ==
    /\ widgetCall.op = "activated"
    /\ controls["EDITOR-BACKGROUND"].dlg.id = 1
    /\ controls["EDITOR-BACKGROUND"].dlg.execs = 2

\* C17: right after a colour value was assigned to a button, the colour read
\* from the button is the canonical hex of that value, whether the button
\* has a dialog or not and whatever was accepted in it before.
C17_SetGetRoundTrip ==
    widgetCall.op = "colour" =>
        LET r == widgetCall.args[1]
            v == widgetCall.args[2]
        IN  Colour(controls[r]) = Canonical(v)

(***************************************************************************)
(* Properties of the fonts and the highlighters                            *)
(***************************************************************************)
\* the places of the Font-valued attributes in a class __dict__
Categories(items) == { i \in 1..Len(items) : items[i].value.type = "Font" }

\* the calls of a method among the calls the last call made on the lexer
CallsTo(method) ==
    { k \in 1..Len(highlightCall.calls) : highlightCall.calls[k].method = method }

\* the calls of a method that name a style number
StyledCalls(method, style_num) ==
    { k \in CallsTo(method) :
        /\ Len(highlightCall.calls[k].args) = 2
        /\ highlightCall.calls[k].args[2] = style_num }

\* C13: apply_to on a theme class with N Font-valued categories calls
\* setColor, setEolFill and setPaper N times each and setFont N + 1 times:
\* setFont once without a style, and each of the four once for every
\* category with the number the lexer has for it, setEolFill with True; for
\* DayTheme on the Python lexer the counts are 16 and 17.
C13_ApplyOnce ==
    highlightCall.op = "apply_to" =>
        LET items == ThemeClasses[highlightCall.args[1]]
            attrs == Lexers[highlightCall.args[2]]
            N == Cardinality(Categories(items))
        IN  /\ Cardinality(CallsTo("setColor")) = N
            /\ Cardinality(CallsTo("setEolFill")) = N
            /\ Cardinality(CallsTo("setPaper")) = N
            /\ Cardinality(CallsTo("setFont")) = N + 1
            /\ Cardinality({ k \in CallsTo("setFont") :
                               Len(highlightCall.calls[k].args) = 1 }) = 1
            /\ \A i \in Categories(items) :
                   /\ items[i].name \in DOMAIN attrs
                   /\ \A m \in {"setColor", "setEolFill", "setPaper", "setFont"} :
                          Cardinality(StyledCalls(m, attrs[items[i].name])) = 1
            /\ \A k \in CallsTo("setEolFill") : highlightCall.calls[k].args[1] = TRUE
            /\ highlightCall.args = <<"DayTheme", "python">> =>
                   /\ Cardinality(CallsTo("setColor")) = 16
                   /\ Cardinality(CallsTo("setEolFill")) = 16
                   /\ Cardinality(CallsTo("setPaper")) = 16
                   /\ Cardinality(CallsTo("setFont")) = 17

\* the font files of the six variants
SixFonts ==
    { "SourceCodePro-Bold.otf", "SourceCodePro-BoldIt.otf", "SourceCodePro-It.otf",
      "SourceCodePro-Regular.otf", "SourceCodePro-Semibold.otf",
      "SourceCodePro-SemiboldIt.otf" }

\* every one of the six font files is in the sequence once, and nothing else
EachOnce(files) ==
    /\ Len(files) = 6
    /\ { files[i] : i \in 1..Len(files) } = SixFonts

\* C14: before the first call that needs the font database there is none
\* and no font data was loaded; from that call on one database has been
\* constructed, the font data of each of the six variants was loaded once
\* and added to it once, and get_database returns that database.
C14_DatabaseOnce ==
    IF highlightCall.op = "__init__"
    THEN /\ DATABASE = None
         /\ constructed = 0
         /\ fontData = << >>
    ELSE /\ constructed = 1
         /\ DATABASE.type = "QFontDatabase"
         /\ DATABASE.id = 1
         /\ EachOnce(DATABASE.fonts)
         /\ EachOnce(fontData)
         /\ highlightCall.op = "get_database" => highlightCall.result = Ok(DATABASE)

\* get_database was called after a theme had been applied to the Python
\* lexer, that is after the fonts had been loaded many times
C14_Witness ==
    /\ highlightCall.op = "get_database"
    /\ highlightCall.result.value.id = 1
    /\ lexers["python"].font # None
    /\ 15 \in DOMAIN lexers["python"].styles

(***************************************************************************)
(* Properties of the custom theme                                          *)
(***************************************************************************)
\* C7: CUSTOM_DEFAULTS holds its ten original entries and no others,
\* whatever overrides were set and however often the stylesheet was read.
C7_DefaultsNeverMutated == CUSTOM_DEFAULTS = CustomDefaults

\* C8: the table a read of the stylesheet hands over gives each role its
\* current override when there is one and its original default otherwise.
C8_AlwaysFresh ==
    themeCall.op = "stylesheet" =>
        \A r \in Roles :
            themeCall.result.value[r] =
                IF r \in DOMAIN colours THEN colours[r] ELSE CustomDefaults[r]

\* C9: in the table a read of the stylesheet hands over, no role has the
\* value "[NONE]", and a role whose override is "[NONE]" has its original
\* default.
C9_SentinelIsAbsence ==
    themeCall.op = "stylesheet" =>
        \A r \in Roles :
            /\ themeCall.result.value[r] # "[NONE]"
            /\ (r \in DOMAIN colours /\ colours[r] = "[NONE]")
                   => themeCall.result.value[r] = CustomDefaults[r]

====
